---- MODULE Spec2Model ----
(***************************************************************************)
(* A model of src/main.py ("AI Search Optimizer Pro"): the keyword-based   *)
(* website-type classifier detect_website_type and the mock-metrics        *)
(* generator generate_ai_analysis with the helpers it calls.               *)
(*                                                                         *)
(* Text that the program inspects character by character (urls, domains,   *)
(* keywords, website-type names) is a sequence of one-character strings,   *)
(* so that lower(), the `in` substring test, split() and urlparse() are    *)
(* computed as the code computes them.  Labels the program only copies     *)
(* around (entity names, schema names) are atomic strings.                 *)
(*                                                                         *)
(* Floating-point values are fixed-point integers in units of 1/10000      *)
(* (Scale); round(x, 2) yields hundredths.                                 *)
(***************************************************************************)
EXTENDS Integers, Sequences, FiniteSets, TLC

VARIABLES
    args,           \* the arguments of the call in progress / last call
    ret,            \* what the last call returned, or the exception it raised
    rng,            \* state of the module-level generator of `random`
    session_state,  \* st.session_state
    db,             \* the tables of AnalysisDatabase
    returned,       \* records handed out by earlier detect_website_type calls
    now,            \* datetime.now(), in days since the session began
    http            \* requests sent to the chat-completion endpoint

vars == <<args, ret, rng, session_state, db, returned, now, http>>

----------------------------------------------------------------------------
(* Strings *)

LowerLetters == <<"a","b","c","d","e","f","g","h","i","j","k","l","m","n","o","p","q","r","s","t","u","v","w","x","y","z">>

UpperLetters == <<"A","B","C","D","E","F","G","H","I","J","K","L","M","N","O","P","Q","R","S","T","U","V","W","X","Y","Z">>

\* the lower-case letter of each upper-case ASCII letter
UpperToLower ==
    [c \in {UpperLetters[i] : i \in 1..Len(UpperLetters)} |->
        LowerLetters[CHOOSE i \in 1..Len(UpperLetters) : UpperLetters[i] = c]]

\* the upper-case letter of each lower-case ASCII letter
LowerToUpper ==
    [c \in {LowerLetters[i] : i \in 1..Len(LowerLetters)} |->
        UpperLetters[CHOOSE i \in 1..Len(LowerLetters) : LowerLetters[i] = c]]

\* str.lower() on one ASCII character
LowerChar(c) == IF c \in DOMAIN UpperToLower THEN UpperToLower[c] ELSE c

\* str.upper() on one ASCII character
UpperChar(c) == IF c \in DOMAIN LowerToUpper THEN LowerToUpper[c] ELSE c

\* a lower() that leaves the letters as they are
lower_unchanged(s) == s

\* s.lower()
lower(s) == [i \in 1..Len(s) |-> LowerChar(s[i])]

\* s.upper()
upper(s) == [i \in 1..Len(s) |-> UpperChar(s[i])]

\* s.capitalize() of an all-lower-case word
capitalize(s) == [i \in 1..Len(s) |-> IF i = 1 THEN UpperChar(s[i]) ELSE s[i]]

\* s[i:].startswith(p), i counted from 1
MatchAt(s, p, i) ==
    /\ i + Len(p) - 1 <= Len(s)
    /\ \A j \in 1..Len(p) : s[i + j - 1] = p[j]

\* s.startswith(p)
startswith(s, p) == MatchAt(s, p, 1)

\* p in s
Contains(s, p) == \E i \in 1..(Len(s) + 1) : MatchAt(s, p, i)

\* s.find(p), counted from 1; 0 when p does not occur
Find(s, p) ==
    IF Contains(s, p)
    THEN CHOOSE i \in 1..(Len(s) + 1) :
            MatchAt(s, p, i) /\ \A j \in 1..(i - 1) : ~MatchAt(s, p, j)
    ELSE 0

\* s.split(sep)[0]
SplitFirst(s, sep) == IF Find(s, sep) = 0 THEN s ELSE SubSeq(s, 1, Find(s, sep) - 1)

----------------------------------------------------------------------------
(* Calls: what a call hands back *)

\* None, as a value that compares with records
None == [none |-> TRUE]

NoReturn == [status |-> "none"]

Returned(v) == [status |-> "returned", value |-> v]

Raised(e) == [status |-> "raised", error |-> e]

----------------------------------------------------------------------------
(* detect_website_type *)

ECommerceRetail == <<"E","-","c","o","m","m","e","r","c","e"," ","/"," ","R","e","t","a","i","l">>
SaaSTechnology == <<"S","a","a","S"," ","/"," ","T","e","c","h","n","o","l","o","g","y">>
ServiceProvider == <<"S","e","r","v","i","c","e"," ","P","r","o","v","i","d","e","r">>
Healthcare == <<"H","e","a","l","t","h","c","a","r","e">>
RealEstate == <<"R","e","a","l"," ","E","s","t","a","t","e">>
ContentMedia == <<"C","o","n","t","e","n","t"," ","/"," ","M","e","d","i","a">>
BusinessWebsite == <<"B","u","s","i","n","e","s","s"," ","W","e","b","s","i","t","e">>

patterns ==
  <<
    [type |-> ECommerceRetail,
     keywords |->
       << <<"s","h","o","p">>,
          <<"s","t","o","r","e">>,
          <<"p","r","o","d","u","c","t">>,
          <<"b","u","y">>,
          <<"c","a","r","t">>,
          <<"c","h","e","c","k","o","u","t">>,
          <<"s","h","o","e">>,
          <<"f","o","o","t","w","e","a","r">>,
          <<"c","l","o","t","h","i","n","g">>,
          <<"a","p","p","a","r","e","l">>,
          <<"f","a","s","h","i","o","n">>,
          <<"b","a","g">>,
          <<"a","c","c","e","s","s","o","r","y">>,
          <<"r","e","t","a","i","l">>,
          <<"m","a","r","k","e","t","p","l","a","c","e">> >>,
     entity_focus |-> <<"Products", "Brands", "Categories", "Prices", "Reviews", "Inventory">>,
     schema_priority |-> <<"Product", "Offer", "Review", "AggregateRating", "Brand">>],
    [type |-> SaaSTechnology,
     keywords |->
       << <<"s","a","a","s">>,
          <<"s","o","f","t","w","a","r","e">>,
          <<"p","l","a","t","f","o","r","m">>,
          <<"a","p","p">>,
          <<"c","l","o","u","d">>,
          <<"a","p","i">>,
          <<"t","e","c","h">>,
          <<"s","o","l","u","t","i","o","n">> >>,
     entity_focus |-> <<"Features", "Pricing", "Integration", "Support", "Documentation">>,
     schema_priority |-> <<"SoftwareApplication", "Product", "Organization", "FAQ">>],
    [type |-> ServiceProvider,
     keywords |->
       << <<"s","e","r","v","i","c","e">>,
          <<"c","o","n","s","u","l","t","i","n","g">>,
          <<"a","g","e","n","c","y">>,
          <<"s","o","l","u","t","i","o","n","s">>,
          <<"p","r","o","f","e","s","s","i","o","n","a","l">>,
          <<"d","i","g","i","t","a","l">> >>,
     entity_focus |-> <<"Services", "Team", "Expertise", "Process", "Results">>,
     schema_priority |-> <<"Service", "Organization", "Person", "FAQ">>],
    [type |-> Healthcare,
     keywords |->
       << <<"h","e","a","l","t","h">>,
          <<"m","e","d","i","c","a","l">>,
          <<"c","l","i","n","i","c">>,
          <<"d","o","c","t","o","r">>,
          <<"h","o","s","p","i","t","a","l">>,
          <<"d","e","n","t","a","l">>,
          <<"c","a","r","e">> >>,
     entity_focus |-> <<"Services", "Physicians", "Treatments", "Insurance", "Locations">>,
     schema_priority |-> <<"MedicalBusiness", "Physician", "MedicalProcedure">>],
    [type |-> RealEstate,
     keywords |->
       << <<"r","e","a","l">>,
          <<"e","s","t","a","t","e">>,
          <<"p","r","o","p","e","r","t","y">>,
          <<"h","o","m","e","s">>,
          <<"r","e","a","l","t","y">>,
          <<"h","o","u","s","i","n","g">>,
          <<"a","p","a","r","t","m","e","n","t","s">> >>,
     entity_focus |-> <<"Listings", "Locations", "Agents", "Prices", "Features">>,
     schema_priority |-> <<"RealEstateListing", "Place", "Organization">>],
    [type |-> ContentMedia,
     keywords |->
       << <<"b","l","o","g">>,
          <<"n","e","w","s">>,
          <<"m","a","g","a","z","i","n","e">>,
          <<"m","e","d","i","a">>,
          <<"p","u","b","l","i","s","h","i","n","g">>,
          <<"e","d","i","t","o","r","i","a","l">> >>,
     entity_focus |-> <<"Articles", "Authors", "Topics", "Categories", "Archives">>,
     schema_priority |-> <<"Article", "Person", "Organization", "Breadcrumb">>]
  >>

\* `if kw in url_lower or kw in domain_lower` for some kw of config['keywords']
KeywordHit(config, url_lower, domain_lower) ==
    \E j \in 1..Len(config.keywords) :
        Contains(url_lower, config.keywords[j]) \/ Contains(domain_lower, config.keywords[j])

\* the matched record with the short name in place of the type
MatchedWebsiteTypeShortName(config) ==
    [type |-> SplitFirst(config.type, <<" ","/"," ">>),
     industry |-> SplitFirst(config.type, <<" ","/"," ">>),
     description |-> lower(config.type) \o <<" ","b","u","s","i","n","e","s","s">>,
     entity_focus |-> config.entity_focus,
     schema_priority |-> config.schema_priority]

\* the record built at the `return` inside the loop
MatchedWebsiteType(config) ==
    [type |-> config.type,
     industry |-> SplitFirst(config.type, <<" ","/"," ">>),
     description |-> lower(config.type) \o <<" ","b","u","s","i","n","e","s","s">>,
     entity_focus |-> config.entity_focus,
     schema_priority |-> config.schema_priority]

\* a default that falls back to the Service Provider entry
DefaultAsServiceProvider == MatchedWebsiteType(patterns[3])

\* the record of the final `return`
DefaultWebsiteType ==
    [type |-> BusinessWebsite,
     industry |-> <<"G","e","n","e","r","a","l"," ","B","u","s","i","n","e","s","s">>,
     description |-> <<"c","o","r","p","o","r","a","t","e"," ","w","e","b","s","i","t","e">>,
     entity_focus |-> <<"Company", "Services", "Contact", "About">>,
     schema_priority |-> <<"Organization", "LocalBusiness", "ContactPoint">>]

\* a scan in which the last matching entry wins
ScanPatternsLastWins(url_lower, domain_lower, i) ==
    LET hits == {k \in i..Len(patterns) : KeywordHit(patterns[k], url_lower, domain_lower)}
    IN  IF hits = {} THEN DefaultWebsiteType
        ELSE MatchedWebsiteType(patterns[CHOOSE k \in hits : \A h \in hits : h <= k])

\* `for website_type, config in patterns.items()` from the i-th entry on
RECURSIVE ScanPatterns(_, _, _)
ScanPatterns(url_lower, domain_lower, i) ==
    IF i > Len(patterns) THEN DefaultWebsiteType
    ELSE IF KeywordHit(patterns[i], url_lower, domain_lower)
         THEN MatchedWebsiteType(patterns[i])
         ELSE ScanPatterns(url_lower, domain_lower, i + 1)

\* a classifier that reuses the category of the analysis kept in the session
detect_website_type_cached(url, domain) ==
    IF session_state.analysis_results # None
    THEN session_state.analysis_results.website_type
    ELSE ScanPatterns(lower(url), lower(domain), 1)

detect_website_type(url, domain) == ScanPatterns(lower(url), lower(domain), 1)

----------------------------------------------------------------------------
(* The module `random`.  Its generator is a stream of draws from [0, 1]    *)
(* of which every function below consumes the next ones; the stream is an  *)
(* arbitrary periodic sequence of the fractions 0/UnitDen .. UnitDen/UnitDen. *)

\* fixed-point unit of the floating-point values: 1.0 is Scale
Scale == 10000

\* the draws are multiples of 1/UnitDen
UnitDen == 2

\* period of the stream of draws
RandPeriod == 3

Streams == [1..RandPeriod -> 0..UnitDen]

\* a generator that hands out one value again and again
DrawStuck(r, k) == r[1]

\* the k-th next draw (k = 0, 1, ...) of generator state r
Draw(r, k) == r[(k % Len(r)) + 1]

\* the generator state after n draws
Advance(r, n) == [i \in 1..Len(r) |-> r[((i - 1 + n) % Len(r)) + 1]]

\* random.randint(a, b) for the draw u: an integer of a..b
randint(a, b, u) == a + (u * (b - a)) \div UnitDen

\* random.uniform(a, b) for the draw u, a and b in units of 1/Scale
uniform(a, b, u) == a + (u * (b - a)) \div UnitDen

\* random.choice(seq) for the draw u
choice(seq, u) == seq[1 + (u * (Len(seq) - 1)) \div UnitDen]

\* round(x, 2) of x in units of 1/Scale, in hundredths
round2(x) == (x + (Scale \div 200)) \div (Scale \div 100)

\* int(x) of x in units of 1/Scale: truncation towards zero
int(x) == IF x >= 0 THEN x \div Scale ELSE -((-x) \div Scale)

Min(a, b) == IF a <= b THEN a ELSE b

Max(a, b) == IF a >= b THEN a ELSE b

----------------------------------------------------------------------------
(* urlparse(url).netloc *)

HttpScheme == <<"h","t","t","p",":","/","/">>

HttpsScheme == <<"h","t","t","p","s",":","/","/">>

\* url.startswith(('http://', 'https://'))
HasHttpScheme(url) == startswith(url, HttpScheme) \/ startswith(url, HttpsScheme)

\* the text between the "//" of the scheme and the next "/", "?" or "#"
NetLocText(url) ==
    LET start == Find(url, <<"/","/">>) + 2
        stops == {i \in start..Len(url) : url[i] \in {"/", "?", "#"}}
        stop  == IF stops = {} THEN Len(url) + 1
                 ELSE CHOOSE i \in stops : \A j \in stops : i <= j
    IN  SubSeq(url, start, stop - 1)

\* urlsplit raises ValueError("Invalid IPv6 URL") on an unmatched bracket
InvalidIPv6(netloc) ==
    LET open == \E i \in 1..Len(netloc) : netloc[i] = "["
        shut == \E i \in 1..Len(netloc) : netloc[i] = "]"
    IN  open # shut

----------------------------------------------------------------------------
(* generate_entities *)

entity_templates ==
  <<
    [key |-> ECommerceRetail,
     types |-> <<"PRODUCT", "BRAND", "CATEGORY", "OFFER", "REVIEW", "PRICE",
                "ATTRIBUTE">>,
     names |-> <<"Running Shoes", "Sneakers", "Boots", "Sandals", "Athletic Footwear",
                "Nike", "Adidas", "Puma", "Reebok", "New Balance", "Under Armour",
                "Free Shipping", "Discount", "Sale", "New Arrivals", "Best Sellers",
                "Customer Reviews", "Ratings", "Size Guide", "Returns Policy", "Men's",
                "Women's", "Kids", "Unisex", "Wide Width", "Leather", "Canvas",
                "Synthetic", "Waterproof">>],
    [key |-> SaaSTechnology,
     types |-> <<"FEATURE", "INTEGRATION", "PLAN", "PRODUCT", "SUPPORT", "API">>,
     names |-> <<"Analytics Dashboard", "Real-time Reporting", "API Access",
                "Cloud Storage", "Team Collaboration", "Security Features",
                "Starter Plan", "Professional Plan", "Enterprise Plan",
                "Slack Integration", "Salesforce Connector", "Zapier", "24/7 Support",
                "Knowledge Base", "Video Tutorials", "REST API", "Webhooks", "SDKs">>],
    [key |-> ServiceProvider,
     types |-> <<"SERVICE", "ORGANIZATION", "PERSON", "PROCESS", "CERTIFICATION",
                "RESULT">>,
     names |-> <<"Consulting", "Strategy", "Implementation", "Training", "Support",
                "Expert Team", "Certified Professionals", "Senior Consultants",
                "Discovery Phase", "Analysis", "Recommendations", "Execution",
                "ISO Certified", "Google Partner", "Microsoft Partner", "ROI Increase",
                "Cost Reduction", "Efficiency Gains">>],
    [key |-> Healthcare,
     types |-> <<"SERVICE", "PHYSICIAN", "TREATMENT", "FACILITY", "INSURANCE">>,
     names |-> <<"Primary Care", "Urgent Care", "Preventive Care", "Diagnostics",
                "Dr. Smith", "Dr. Johnson", "Medical Staff", "Specialists",
                "Physical Therapy", "Surgery", "Medication", "Rehabilitation",
                "Modern Facilities", "Emergency Room", "Lab Services",
                "Insurance Accepted", "Medicare", "PPO Plans">>],
    [key |-> RealEstate,
     types |-> <<"LISTING", "LOCATION", "FEATURE", "AGENT", "PRICE">>,
     names |-> <<"Single Family Home", "Condo", "Townhouse", "Luxury Estate",
                "Downtown", "Suburban", "Waterfront", "Golf Course", "Hardwood Floors",
                "Granite Counters", "Pool", "Garage", "Top Agent", "Broker",
                "Realtor of the Year", "Market Value", "Asking Price",
                "Price per sqft">>],
    [key |-> ContentMedia,
     types |-> <<"ARTICLE", "AUTHOR", "TOPIC", "PUBLICATION", "CATEGORY">>,
     names |-> <<"Latest News", "Trends", "Analysis", "Opinion", "Research",
                "Editorial Team", "Senior Writer", "Contributors", "Columnist",
                "Technology", "Business", "Politics", "Entertainment", "Daily Edition",
                "Weekly Review", "Special Report", "Breaking News", "Features",
                "Investigative">>]
  >>

\* dict.get(key, default) on a table kept as a sequence of entries with a key
Lookup(table, key, default) ==
    IF \E i \in 1..Len(table) : table[i].key = key
    THEN table[CHOOSE i \in 1..Len(table) : table[i].key = key]
    ELSE default

\* `any(brand in entity_names[i] for brand in ['Nike', 'Adidas', 'Google',
\* 'Microsoft'])`: the names of the tables in which one of the four occurs
HasBrand(name) == name \in {"Nike", "Adidas", "Google Partner", "Microsoft Partner"}

\* depth_multipliers, in tenths, in the order of the dict
depth_multipliers ==
    << [key |-> <<"B","a","s","i","c">>, mult |-> 10],
       [key |-> <<"A","d","v","a","n","c","e","d">>, mult |-> 15],
       [key |-> <<"D","e","e","p">>, mult |-> 20] >>

\* the count left as it is, whatever the depth
AdjustedCountUnscaled(count, depth) == count

\* `for key, mult in depth_multipliers.items(): if key in depth: ...; break`
AdjustedCount(count, depth) ==
    LET hits == {i \in 1..Len(depth_multipliers) : Contains(depth, depth_multipliers[i].key)}
    IN  IF hits = {} THEN count
        ELSE LET i == CHOOSE h \in hits : \A g \in hits : h <= g
             IN  (count * depth_multipliers[i].mult) \div 10

\* one pass of the loop body for entity_names[i], the next draw being the
\* k-th: the entity and the number of draws it consumed.  confidence and
\* relevance are in hundredths.
Entity(name, entity_types, r, k) ==
    LET brand == HasBrand(name)
        c1    == uniform(5500, 9500, Draw(r, k))
        conf  == IF brand THEN uniform(8500, 9800, Draw(r, k + 1)) ELSE c1
        k1    == IF brand THEN k + 2 ELSE k + 1
        type  == choice(entity_types, Draw(r, k1))
        sure  == conf > 7000
        k2    == k1 + 1
        insch == IF sure THEN choice(<<TRUE, FALSE>>, Draw(r, k2)) ELSE FALSE
        k3    == IF sure THEN k2 + 1 ELSE k2
        rel   == round2(uniform(6000, 10000, Draw(r, k3)))
        ment  == IF sure THEN randint(1, 50, Draw(r, k3 + 1)) ELSE randint(1, 10, Draw(r, k3 + 1))
    IN  [entity |-> [text |-> name, type |-> type, confidence |-> round2(conf),
                     in_schema |-> insch, relevance |-> rel, mentions |-> ment],
         draws |-> k3 + 2 - k]

\* `for i in range(n)` from index i on (i counted from 1), the next draw
\* being the k-th: the entities appended and the index of the draw after them
RECURSIVE EntityLoop(_, _, _, _, _, _)
EntityLoop(entity_names, entity_types, n, i, r, k) ==
    IF i > n THEN [entities |-> <<>>, next |-> k]
    ELSE LET e    == Entity(entity_names[i], entity_types, r, k)
             rest == EntityLoop(entity_names, entity_types, n, i + 1, r, k + e.draws)
         IN  [entities |-> <<e.entity>> \o rest.entities, next |-> rest.next]

\* generate_entities(count, depth, website_type) drawing from the k-th draw on
generate_entities(count, depth, website_type, r, k) ==
    LET template == Lookup(entity_templates, website_type.type,
                           Lookup(entity_templates, ServiceProvider, entity_templates[1]))
        n == Min(AdjustedCount(count, depth), Len(template.names))
    IN  EntityLoop(template.names, template.types, n, 1, r, k)

----------------------------------------------------------------------------
(* AdvancedAnalyzer *)

\* analyze_content_structure(url) drawing from the k-th draw on (6 draws)
analyze_content_structure(url, r, k) ==
    LET details ==
            [headings       |-> randint(60, 95, Draw(r, k)),
             paragraphs     |-> randint(65, 90, Draw(r, k + 1)),
             lists          |-> randint(50, 85, Draw(r, k + 2)),
             tables         |-> randint(40, 75, Draw(r, k + 3)),
             images_alt     |-> randint(45, 80, Draw(r, k + 4)),
             internal_links |-> randint(55, 90, Draw(r, k + 5))]
        total == details.headings + details.paragraphs + details.lists
                 + details.tables + details.images_alt + details.internal_links
        recommendations ==
            (IF details.headings < 70 THEN <<"Improve Heading Hierarchy">> ELSE <<>>)
            \o (IF details.images_alt < 60 THEN <<"Add Alt Text to Images">> ELSE <<>>)
    IN  [structure_score |-> total \div 6,
         details |-> details,
         recommendations |-> recommendations]

\* the prediction without the cap of 100 on predicted_score
predict_sge_performance_uncapped(current_score, entity_count, schema_score, r, k) ==
    LET predicted_score ==
            current_score * Scale + (entity_count * 15 * Scale) \div 50
            + (schema_score * 20 * Scale) \div 100
            + uniform(-5 * Scale, 10 * Scale, Draw(r, k))
    IN  [d30 |-> int((predicted_score * 33 + current_score * Scale * 67) \div 100),
         d60 |-> int((predicted_score * 66 + current_score * Scale * 34) \div 100),
         d90 |-> int(predicted_score),
         confidence |-> randint(75, 95, Draw(r, k + 1))]

\* entity_factor = (entity_count / 50) * 15, in units of 1/Scale
entity_factor(entity_count) == (entity_count * 15 * Scale) \div 50

\* the prediction as it would be with the weights of the 30-day and the
\* 60-day value exchanged
predict_sge_performance_weights_swapped(current_score, entity_count, schema_score, r, k) ==
    LET predicted_score ==
            Min(100 * Scale,
                current_score * Scale + (entity_count * 15 * Scale) \div 50
                + (schema_score * 20 * Scale) \div 100
                + uniform(-5 * Scale, 10 * Scale, Draw(r, k)))
    IN  [d30 |-> int((predicted_score * 66 + current_score * Scale * 34) \div 100),
         d60 |-> int((predicted_score * 33 + current_score * Scale * 67) \div 100),
         d90 |-> int(predicted_score),
         confidence |-> randint(75, 95, Draw(r, k + 1))]

\* predict_sge_performance(current_score, entity_count, schema_score) drawing
\* from the k-th draw on (2 draws); the factors are in units of 1/Scale
predict_sge_performance(current_score, entity_count, schema_score, r, k) ==
    LET base_prediction == current_score * Scale
        schema_factor   == (schema_score * 20 * Scale) \div 100
        trend_factor    == uniform(-5 * Scale, 10 * Scale, Draw(r, k))
        predicted_score == Min(100 * Scale,
                               base_prediction + entity_factor(entity_count)
                               + schema_factor + trend_factor)
    IN  [d30 |-> int((predicted_score * 33 + current_score * Scale * 67) \div 100),
         d60 |-> int((predicted_score * 66 + current_score * Scale * 34) \div 100),
         d90 |-> int(predicted_score),
         confidence |-> randint(75, 95, Draw(r, k + 1))]

\* the phases as they would be with both thresholds five points lower
generate_action_plan_lower_thresholds(results) ==
    (IF results.schema_score < 45 THEN <<"Quick Wins">> ELSE <<>>)
    \o (IF results.entity_score < 55 THEN <<"Foundation Building">> ELSE <<>>)
    \o <<"Advanced Optimization">>

\* generate_action_plan(results): the phases, in order
generate_action_plan(results) ==
    (IF results.schema_score < 50 THEN <<"Quick Wins">> ELSE <<>>)
    \o (IF results.entity_score < 60 THEN <<"Foundation Building">> ELSE <<>>)
    \o <<"Advanced Optimization">>

----------------------------------------------------------------------------
(* Canned text: the lists are kept by the titles of their items *)

base_recs ==
    << [key |-> ECommerceRetail,
        recs |-> <<"Implement Product Schema with Rich Attributes",
                   "Create Product Comparison Tables",
                   "Implement Review Schema at Scale">>],
       [key |-> SaaSTechnology,
        recs |-> <<"Create Comprehensive Feature Documentation",
                   "Implement Pricing Schema">>],
       [key |-> ServiceProvider,
        recs |-> <<"Build Service Catalog with Schema",
                   "Showcase Team Expertise">>] >>

\* generate_entity_recommendations(website_type): base_recs is built anew by
\* every call, the universal recommendation is appended to the list selected
generate_entity_recommendations(website_type) ==
    Append(Lookup(base_recs, website_type.type, Lookup(base_recs, ServiceProvider, None)).recs,
           "Implement FAQ Schema")

snippets_by_type ==
    << [key |-> ECommerceRetail,
        snippets |-> <<"What sizes do these shoes come in?",
                       "How long does shipping take?",
                       "What is your return policy?",
                       "How do I clean leather shoes?">>],
       [key |-> SaaSTechnology,
        snippets |-> <<"What integrations are available?",
                       "How much does it cost?",
                       "Is there a mobile app?">>] >>

\* generate_featured_snippets with an empty list for a category without
\* an entry
generate_featured_snippets_no_fallback(website_type) ==
    Lookup(snippets_by_type, website_type.type, [snippets |-> <<>>]).snippets

\* generate_featured_snippets(website_type)
generate_featured_snippets(website_type) ==
    Lookup(snippets_by_type, website_type.type,
           Lookup(snippets_by_type, ECommerceRetail, [snippets |-> <<>>])).snippets

\* generate_generative_recommendations(website_type)
generate_generative_recommendations(website_type) ==
    <<"Structure Content for AI Snapshots",
      "Optimize for Conversational Queries",
      "Establish Brand as Named Entity">>
    \o (IF Contains(website_type.type, <<"E","-","c","o","m","m","e","r","c","e">>)
        THEN <<"Optimize for AI Shopping Features", "Optimize for Google Lens & AI Vision">>
        ELSE IF \/ Contains(website_type.type, <<"S","a","a","S">>)
                \/ Contains(website_type.type, <<"T","e","c","h","n","o","l","o","g","y">>)
        THEN <<"Create AI-Readable Documentation">>
        ELSE IF Contains(website_type.type, <<"S","e","r","v","i","c","e">>)
        THEN <<"Dominate \"Near Me\" Voice Searches">>
        ELSE <<>>)

\* the descriptions table: which text is used, with the domain it is filled with
descriptions ==
    << [key |-> ECommerceRetail, current |-> "online retail store", optimized |-> "premier e-commerce destination"],
       [key |-> SaaSTechnology, current |-> "software platform", optimized |-> "innovative SaaS platform"],
       [key |-> ServiceProvider, current |-> "service business", optimized |-> "leading professional services firm"] >>

DefaultDescription ==
    [key |-> None, current |-> "business website", optimized |-> "established industry leader"]

----------------------------------------------------------------------------
(* generate_ai_analysis *)

\* a depth_config whose Deep intervals are narrower than the Basic ones
depth_config_narrow_deep ==
    << [emoji |-> <<"U+1F331">>, entities |-> <<10, 20>>, entity_score |-> <<30, 45>>,
        schema_score |-> <<20, 35>>],
       [emoji |-> <<"U+1F52C">>, entities |-> <<20, 35>>, entity_score |-> <<40, 55>>,
        schema_score |-> <<30, 45>>],
       [emoji |-> <<"U+1F9EC">>, entities |-> <<35, 40>>, entity_score |-> <<45, 50>>,
        schema_score |-> <<35, 40>>] >>

\* a depth_config with the intervals of Advanced and Deep exchanged
depth_config_swapped ==
    << [emoji |-> <<"U+1F331">>, entities |-> <<10, 20>>, entity_score |-> <<30, 45>>,
        schema_score |-> <<20, 35>>],
       [emoji |-> <<"U+1F52C">>, entities |-> <<35, 55>>, entity_score |-> <<45, 65>>,
        schema_score |-> <<35, 55>>],
       [emoji |-> <<"U+1F9EC">>, entities |-> <<20, 35>>, entity_score |-> <<40, 55>>,
        schema_score |-> <<30, 45>>] >>

\* the emoji are written by their code points, one character each
depth_config ==
    << [emoji |-> <<"U+1F331">>, entities |-> <<10, 20>>, entity_score |-> <<30, 45>>,
        schema_score |-> <<20, 35>>],
       [emoji |-> <<"U+1F52C">>, entities |-> <<20, 35>>, entity_score |-> <<40, 55>>,
        schema_score |-> <<30, 45>>],
       [emoji |-> <<"U+1F9EC">>, entities |-> <<35, 55>>, entity_score |-> <<45, 65>>,
        schema_score |-> <<35, 55>>] >>

\* the entries of depth_config whose emoji occurs in depth
DepthHits(depth) == {i \in 1..Len(depth_config) : Contains(depth, depth_config[i].emoji)}

platform_bonus ==
    << [key |-> "Google SGE", bonus |-> 5],
       [key |-> "ChatGPT", bonus |-> 3],
       [key |-> "Bard", bonus |-> 4],
       [key |-> "Claude", bonus |-> 6],
       [key |-> "Perplexity", bonus |-> 7],
       [key |-> "Copilot", bonus |-> 2] >>

\* the value assigned to platform_scores[platforms[i]], its draw being the k-th
PlatformScore(platform, base_score, r, k) ==
    Min(100, Max(25, base_score + randint(-10, 15, Draw(r, k))
                     + Lookup(platform_bonus, platform, [bonus |-> 0]).bonus))

\* platform_scores with entries for the six known platforms only
PlatformScoresKnownOnly(platforms, base_score, r, k) ==
    [p \in {platforms[i] : i \in 1..Len(platforms)}
           \cap {platform_bonus[j].key : j \in 1..Len(platform_bonus)} |->
        PlatformScore(p, base_score, r, k)]

\* platform_scores after the loop: a later entry of the list overwrites an
\* earlier one of the same name; the i-th entry takes the draw k + i - 1
PlatformScores(platforms, base_score, r, k) ==
    [p \in {platforms[i] : i \in 1..Len(platforms)} |->
        LET last == CHOOSE i \in 1..Len(platforms) :
                        platforms[i] = p /\ \A j \in (i + 1)..Len(platforms) : platforms[j] # p
        IN  PlatformScore(p, base_score, r, k + last - 1)]

\* generate_ai_analysis(url, depth, platforms) with generator state r: what
\* the call hands back and the number of draws it consumed
generate_ai_analysis(url, depth, platforms, r) ==
    IF HasHttpScheme(url) /\ InvalidIPv6(NetLocText(url))
    THEN [outcome |-> Raised("ValueError"), draws |-> 0]
    ELSE
    LET domain       == IF HasHttpScheme(url) THEN NetLocText(url) ELSE url
        website_type == detect_website_type(url, domain)
        base_score   == randint(45, 75, Draw(r, 0))
        hits         == DepthHits(depth)
        kp           == IF hits = {} THEN 1 ELSE 4
        platform_scores == PlatformScores(platforms, base_score, r, kp)
        ke           == kp + Len(platforms)
    IN  IF hits = {}
        THEN [outcome |-> Raised("UnboundLocalError"), draws |-> ke]
        ELSE
        LET config       == depth_config[CHOOSE h \in hits : \A g \in hits : h <= g]
            entity_count == randint(config.entities[1], config.entities[2], Draw(r, 1))
            entity_score == randint(config.entity_score[1], config.entity_score[2], Draw(r, 2))
            schema_score == randint(config.schema_score[1], config.schema_score[2], Draw(r, 3))
            gen          == generate_entities(entity_count, depth, website_type, r, ke)
            entities     == gen.entities
            RECURSIVE SumConfidence(_)
            SumConfidence(i) ==
                IF i > Len(entities) THEN 0 ELSE entities[i].confidence + SumConfidence(i + 1)
            \* int(entity_confidence * 100), the confidences being hundredths; in
            \* exact arithmetic (binary floating point may truncate one lower)
            ai_confidence == IF entities # <<>> THEN SumConfidence(1) \div Len(entities) ELSE 60
            desc         == Lookup(descriptions, website_type.type, DefaultDescription)
            kc           == gen.next
            content_analysis == analyze_content_structure(url, r, kc)
            predictions  == predict_sge_performance(base_score, entity_count, schema_score,
                                                    r, kc + 6)
            action_plan  == generate_action_plan([schema_score |-> schema_score,
                                                  entity_score |-> entity_score,
                                                  ai_visibility_score |-> base_score])
            kr           == kc + 8
        IN  [outcome |-> Returned(
                [url |-> url,
                 domain |-> domain,
                 website_type |-> website_type,
                 ai_visibility_score |-> base_score,
                 entity_score |-> entity_score,
                 entity_count |-> entity_count,
                 schema_score |-> schema_score,
                 schema_types |-> randint(1, 7, Draw(r, kr)),
                 sge_score |-> randint(35, 65, Draw(r, kr + 1)),
                 ai_confidence |-> ai_confidence,
                 improvement_potential |-> randint(35, 55, Draw(r, kr + 2)),
                 platform_scores |-> platform_scores,
                 entities |-> entities,
                 entity_recommendations |-> generate_entity_recommendations(website_type),
                 kg_present |-> SubSeq(website_type.entity_focus, 1,
                                       Min(3, Len(website_type.entity_focus))),
                 kg_missing |-> website_type.schema_priority,
                 ai_description |-> [domain |-> domain, text |-> desc.current],
                 optimized_description |-> [domain |-> domain, text |-> desc.optimized],
                 featured_snippets |-> generate_featured_snippets(website_type),
                 generative_recommendations |-> generate_generative_recommendations(website_type),
                 content_structure |-> content_analysis,
                 predictions |-> predictions,
                 action_plan |-> action_plan,
                 analysis_timestamp |-> "now"]),
             draws |-> kr + 3]

----------------------------------------------------------------------------
(* Inputs of the classifier *)

RECURSIVE SeqToSet(_)
SeqToSet(s) == IF s = <<>> THEN {} ELSE {Head(s)} \cup SeqToSet(Tail(s))

\* every keyword of every category
AllKeywords == UNION {SeqToSet(patterns[i].keywords) : i \in 1..Len(patterns)}

\* words that contain no keyword
Fillers == {<<"e","x","a","m","p","l","e">>, <<"a","c","m","e">>}

\* one keyword of each category
Representatives == {patterns[i].keywords[1] : i \in 1..Len(patterns)}

\* a word in lower case and in upper case
Casings(w) == {w, upper(w)}

\* number of further words a url may carry after its first
MaxExtraWords == 1

\* "", "-w", "-w-w", ... with at most n words, each a representative
RECURSIVE Tails(_)
Tails(n) ==
    IF n = 0 THEN {<<>>}
    ELSE Tails(n - 1) \cup {<<"-">> \o w \o t : w \in Representatives, t \in Tails(n - 1)}

Https == <<"h","t","t","p","s",":","/","/">>

DotCom == <<".","c","o","m">>

ExampleUrl == <<"h","t","t","p","s",":","/","/","e","x","a","m","p","l","e","-","s","h","o","e","s","t","o","r","e",".","c","o","m">>

ExampleDomain == <<"e","x","a","m","p","l","e","-","s","h","o","e","s","t","o","r","e",".","c","o","m">>

ClassifyUrls ==
    {Https \o c \o t \o DotCom :
        c \in UNION {Casings(w) : w \in AllKeywords \cup Fillers}, t \in Tails(MaxExtraWords)}
    \cup {ExampleUrl}

ClassifyDomains ==
    {<<>>, ExampleDomain,
     upper(<<"s","h","o","p">> \o DotCom),
     capitalize(<<"s","e","r","v","i","c","e">> \o DotCom),
     capitalize(<<"b","l","o","g">> \o DotCom)}

----------------------------------------------------------------------------
(* State *)

\* lines 1297-1306: the session defaults
InitialSession ==
    [analysis_results |-> None,
     api_key |-> None,
     analysis_history |-> <<>>,
     competitor_list |-> <<>>,
     scheduled_analyses |-> <<>>]

\* init_database: three empty tables
EmptyDatabase == [analyses |-> <<>>, scheduled_analyses |-> <<>>, competitors |-> <<>>]

----------------------------------------------------------------------------
(* The classifier called on every input *)

InitClassify ==
    /\ args \in [fn : {"detect_website_type"}, url : ClassifyUrls, domain : ClassifyDomains]
    /\ ret = NoReturn
    /\ rng = <<0>>
    /\ session_state = InitialSession
    /\ db = EmptyDatabase
    /\ returned = <<>>
    /\ now = 0
    /\ http = <<>>

DetectCall ==
    /\ args.fn = "detect_website_type"
    /\ ret = NoReturn
    /\ ret' = Returned(detect_website_type(args.url, args.domain))
    /\ UNCHANGED <<args, rng, session_state, db, returned, now, http>>

NextClassify == DetectCall

SpecClassify == InitClassify /\ [][NextClassify]_vars

----------------------------------------------------------------------------
(* The generator called on every input *)

\* the labels of the sidebar's Depth radio
DepthLabels ==
    { <<"U+1F331"," ","B","a","s","i","c"," ","(","F","a","s","t",")">>,
      <<"U+1F52C"," ","A","d","v","a","n","c","e","d"," ","(","R","e","c","o","m","m","e","n","d","e","d",")">>,
      <<"U+1F9EC"," ","D","e","e","p"," ","(","C","o","m","p","r","e","h","e","n","s","i","v","e",")">> }

\* the plain names of the levels
DepthNames == {<<"B","a","s","i","c">>, <<"A","d","v","a","n","c","e","d">>, <<"D","e","e","p">>}

GenerateUrls ==
    { ExampleUrl,
      <<"h","t","t","p",":","/","/","c","l","i","n","i","c",".","o","r","g","/","b","l","o","g","?","p","a","g","e","=","1">>,
      <<"h","t","t","p","s",":","/","/","[","e","x","a","m","p","l","e",".","c","o","m">> }

\* a platform of the sidebar's multiselect and a name that is none of them
PlatformChoices == {"Perplexity", "Gemini"}

\* longest list of platforms requested
MaxPlatforms == 2

PlatformLists == UNION {[1..n -> PlatformChoices] : n \in 0..MaxPlatforms}

InitGenerate ==
    /\ args \in [fn : {"generate_ai_analysis"}, url : GenerateUrls,
                 depth : DepthLabels \cup DepthNames, platforms : PlatformLists]
    /\ ret = NoReturn
    /\ rng \in Streams
    /\ session_state = InitialSession
    /\ db = EmptyDatabase
    /\ returned = <<>>
    /\ now = 0
    /\ http = <<>>

GenerateCall ==
    /\ args.fn = "generate_ai_analysis"
    /\ ret = NoReturn
    /\ \E call \in {generate_ai_analysis(args.url, args.depth, args.platforms, rng)} :
           /\ ret' = call.outcome
           /\ rng' = Advance(rng, call.draws)
    /\ UNCHANGED <<args, session_state, db, returned, now, http>>

NextGenerate == GenerateCall

SpecGenerate == InitGenerate /\ [][NextGenerate]_vars

\* the labels of the sidebar's Depth radio
BasicLabel == <<"U+1F331"," ","B","a","s","i","c"," ","(","F","a","s","t",")">>

AdvancedLabel == <<"U+1F52C"," ","A","d","v","a","n","c","e","d"," ","(","R","e","c","o","m","m","e","n","d","e","d",")">>

DeepLabel == <<"U+1F9EC"," ","D","e","e","p"," ","(","C","o","m","p","r","e","h","e","n","s","i","v","e",")">>

----------------------------------------------------------------------------
(* The Analyze button of the first tab, and classifier calls between clicks *)

\* AnalysisDatabase.save_analysis(url, domain, results): the row inserted
save_analysis(table, url, domain, results) ==
    Append(table,
           [id |-> Len(table) + 1,
            url |-> url,
            domain |-> domain,
            ai_score |-> results.ai_visibility_score,
            entity_score |-> results.entity_score,
            schema_score |-> results.schema_score,
            sge_score |-> results.sge_score,
            entity_count |-> results.entity_count,
            website_type |-> results.website_type.type,
            analysis_data |-> results,
            user_id |-> "default"])

\* the sidebar as it would be if a key typed in started the session afresh
WithApiKeyResetting(session, api_key) ==
    IF api_key # ""
    THEN [session EXCEPT !.api_key = api_key, !.analysis_results = None,
                         !.analysis_history = <<>>]
    ELSE session

\* the sidebar: `if api_key: st.session_state.api_key = api_key`
WithApiKey(session, api_key) ==
    IF api_key # "" THEN [session EXCEPT !.api_key = api_key] ELSE session

\* `if not url.startswith(('http://', 'https://')): url = 'https://' + url`
NormalizedUrl(url) == IF HasHttpScheme(url) THEN url ELSE HttpsScheme \o url

\* number of Analyze clicks followed
MaxClicks == 2

\* number of classifier calls followed
MaxCalls == 2

ClickUrls == {ExampleUrl, <<"a","c","m","e","-","c","o","n","s","u","l","t","i","n","g",".","c","o","m">>}

PureInputs ==
    { [url |-> ExampleUrl, domain |-> ExampleDomain],
      [url |-> <<"A","c","m","e","-","C","o","n","s","u","l","t","i","n","g",".","c","o","m">>, domain |-> <<"A","c","m","e","-","C","o","n","s","u","l","t","i","n","g",".","c","o","m">>] }

\* API keys typed into the sidebar: none, and one
ApiKeys == {"", "sk-demo"}

\* one run of the script with the Analyze button pressed, from the sidebar
\* to the end of the first tab: the session state, the database, the
\* generator and the outcome of generate_ai_analysis after it
AnalyzeHandler(session, database, r, url_input, analysis_depth, ai_platforms, save_to_db, add_to_schedule, api_key) ==
    IF url_input = <<>>
    THEN [session_state |-> WithApiKey(session, api_key), db |-> database, rng |-> r,
          ret |-> NoReturn]
    ELSE
    LET url  == NormalizedUrl(url_input)
        call == generate_ai_analysis(url, analysis_depth, ai_platforms, r)
    IN  IF call.outcome.status = "raised"
        THEN [session_state |-> WithApiKey(session, api_key), db |-> database,
              rng |-> Advance(r, call.draws), ret |-> call.outcome]
        ELSE
        LET results == call.outcome.value
        IN  [session_state |->
                 [WithApiKey(session, api_key) EXCEPT
                     !.analysis_results = results,
                     !.analysis_history =
                         Append(@, [url |-> url,
                                    score |-> results.ai_visibility_score,
                                    entities |-> results.entity_count,
                                    timestamp |-> "now"])],
             db |-> IF save_to_db
                    THEN [database EXCEPT !.analyses =
                             save_analysis(@, url, results.domain, results)]
                    ELSE database,
             rng |-> Advance(r, call.draws),
             ret |-> call.outcome]

\* an Analyze click
AnalyzeClick(url_input, analysis_depth, ai_platforms, save_to_db, add_to_schedule, api_key) ==
    /\ Len(session_state.analysis_history) < MaxClicks
    /\ args' = [fn |-> "analyze_click", url |-> url_input, depth |-> analysis_depth,
                platforms |-> ai_platforms, save_to_db |-> save_to_db,
                add_to_schedule |-> add_to_schedule, api_key |-> api_key]
    /\ \E run \in {AnalyzeHandler(session_state, db, rng, url_input, analysis_depth,
                                  ai_platforms, save_to_db, add_to_schedule, api_key)} :
           /\ session_state' = run.session_state
           /\ db' = run.db
           /\ rng' = run.rng
           /\ ret' = run.ret
    /\ UNCHANGED <<returned, now, http>>

\* a call of detect_website_type; the record handed back is kept, with the
\* number of analyses made before the call
PureDetect(url, domain) ==
    /\ Len(returned) < MaxCalls
    /\ args' = [fn |-> "detect_website_type", url |-> url, domain |-> domain]
    /\ \E value \in {detect_website_type(url, domain)} :
           /\ ret' = Returned(value)
           /\ returned' = Append(returned,
                                 [url |-> url, domain |-> domain, value |-> value,
                                  analyses_before |-> Len(session_state.analysis_history)])
    /\ UNCHANGED <<rng, session_state, db, now, http>>

InitPure ==
    /\ args = None
    /\ ret = NoReturn
    /\ rng = [i \in 1..RandPeriod |-> (i - 1) % (UnitDen + 1)]
    /\ session_state = InitialSession
    /\ db = EmptyDatabase
    /\ returned = <<>>
    /\ now = 0
    /\ http = <<>>

NextPure ==
    \/ \E u \in ClickUrls, s \in BOOLEAN :
          AnalyzeClick(u, AdvancedLabel, <<"Perplexity">>, s, FALSE, "")
    \/ \E i \in PureInputs : PureDetect(i.url, i.domain)

SpecPure == InitPure /\ [][NextPure]_vars

----------------------------------------------------------------------------
(* Claims about the classifier, checked under SpecClassify *)

\* s with every upper-case letter folded to lower case
Folded(s) == [i \in 1..Len(s) |-> LowerChar(s[i])]

\* the url or the domain of the call carries a keyword of kws, in any casing
InputCarries(kws) ==
    LET u == Folded(args.url)
        d == Folded(args.domain)
    IN  \E kw \in kws : Contains(u, kw) \/ Contains(d, kw)

\* the categories, by place in the table, of which the input carries a keyword
InputMatchSet == {i \in 1..Len(patterns) : InputCarries(SeqToSet(patterns[i].keywords))}

\* the url or the domain of the call carries a keyword of the i-th category
InputMatches(i) == i \in InputMatchSet

ClaimedCommerceKeywords ==
    { <<"s","h","o","p">>, <<"s","t","o","r","e">>, <<"p","r","o","d","u","c","t">>,
      <<"b","u","y">>, <<"c","a","r","t">>, <<"c","h","e","c","k","o","u","t">>,
      <<"s","h","o","e">>, <<"f","o","o","t","w","e","a","r">>,
      <<"c","l","o","t","h","i","n","g">>, <<"a","p","p","a","r","e","l">>,
      <<"f","a","s","h","i","o","n">>, <<"b","a","g">>,
      <<"a","c","c","e","s","s","o","r","y">>, <<"r","e","t","a","i","l">>,
      <<"m","a","r","k","e","t","p","l","a","c","e">> }

\* C1: whenever the url or the domain contains, in any letter casing, one of
\* the fifteen E-commerce keywords, detect_website_type returns the category
\* of type 'E-commerce / Retail', whatever other keywords the input contains.
C1_CommerceKeywordWins ==
    (ret.status = "returned" /\ InputCarries(ClaimedCommerceKeywords))
        => ret.value.type = ECommerceRetail

\* C1 witness: an upper-case commerce keyword next to a media keyword
C1_Witness ==
    /\ ret.status = "returned"
    /\ Contains(args.url, <<"S","H","O","P">>)
    /\ Contains(args.url, <<"b","l","o","g">>)
    /\ ret.value.type = ECommerceRetail

CategoryFields == {"type", "industry", "description", "entity_focus", "schema_priority"}

\* C2: detect_website_type is total: a call on any input never raises and
\* returns a category record; when no keyword of any category occurs in
\* the lower-cased url or domain the record is the default 'Business Website'.
C2_TotalWithDefault ==
    ret # NoReturn =>
        /\ ret.status = "returned"
        /\ DOMAIN ret.value = CategoryFields
        /\ InputMatchSet = {} => ret.value.type = BusinessWebsite

\* C2 witness: a call on an input without any keyword returned the default
C2_Witness ==
    /\ ret.status = "returned"
    /\ InputMatchSet = {}
    /\ ret.value = DefaultWebsiteType

ClaimedOrder ==
    <<ECommerceRetail, SaaSTechnology, ServiceProvider, Healthcare, RealEstate, ContentMedia>>

\* places in ClaimedOrder of the categories of which the input carries a keyword
ClaimedMatchSet ==
    LET hits == {patterns[k].type : k \in InputMatchSet}
    IN  {i \in 1..Len(ClaimedOrder) : ClaimedOrder[i] \in hits}

\* C3: when keywords of several categories match, the category that comes
\* first in the declared order is returned; an input with a commerce keyword
\* is never classified Service Provider and one with a service keyword is
\* never classified Content / Media.
C3_FirstInTableOrderWins ==
    ret.status = "returned" =>
        LET m == ClaimedMatchSet
        IN  /\ \A i \in m : (\A j \in m : i <= j) => ret.value.type = ClaimedOrder[i]
            /\ 1 \in m => ret.value.type # ServiceProvider
            /\ 3 \in m => ret.value.type # ContentMedia

\* C3 witness: service and media keywords both match and the earlier wins
C3_Witness ==
    /\ ret.status = "returned"
    /\ ClaimedMatchSet = {3, 6}
    /\ ret.value.type = ServiceProvider

\* C4: the example url 'https://example-shoestore.com' with its domain is
\* classified with type 'E-commerce / Retail' and industry 'Retail'.
C4_ExampleIsRetail ==
    (ret.status = "returned" /\ args.url = ExampleUrl /\ args.domain = ExampleDomain)
        => /\ ret.value.type = ECommerceRetail
           /\ ret.value.industry = <<"R","e","t","a","i","l">>

\* C5 as stated: the returned category name is one of four values.
C5_FourValues ==
    ret.status = "returned" =>
        ret.value.type \in {ECommerceRetail, ServiceProvider, ContentMedia, BusinessWebsite}

\* C5 amended: the returned category name is one of seven values, the six
\* types of the table and 'Business Website'.
C5_SevenValues ==
    ret.status = "returned" =>
        ret.value.type \in {ECommerceRetail, SaaSTechnology, ServiceProvider, Healthcare,
                            RealEstate, ContentMedia, BusinessWebsite}

\* C5 witness: a call returned a category outside the four named ones
C5_Witness == ret.status = "returned" /\ ret.value.type = Healthcare

----------------------------------------------------------------------------
(* Claims about the generator, checked under SpecGenerate *)

Percent == 0..100

\* C7: every numeric score of a result of generate_ai_analysis lies in
\* [0,100], and every entity's confidence and relevance lies in [0,1] (here
\* in hundredths).
C7_ScoresInRange ==
    ret.status = "returned" =>
        LET v == ret.value
        IN  /\ v.ai_visibility_score \in Percent
            /\ v.entity_score \in Percent
            /\ v.schema_score \in Percent
            /\ v.sge_score \in Percent
            /\ v.ai_confidence \in Percent
            /\ v.improvement_potential \in Percent
            /\ \A p \in DOMAIN v.platform_scores : v.platform_scores[p] \in Percent
            /\ v.content_structure.structure_score \in Percent
            /\ \A f \in DOMAIN v.content_structure.details :
                  v.content_structure.details[f] \in Percent
            /\ v.predictions.d30 \in Percent
            /\ v.predictions.d60 \in Percent
            /\ v.predictions.d90 \in Percent
            /\ v.predictions.confidence \in Percent
            /\ \A i \in 1..Len(v.entities) :
                  /\ v.entities[i].confidence \in 0..100
                  /\ v.entities[i].relevance \in 0..100

\* C7 witness: a Deep result whose 90-day prediction sits at the cap, with a
\* platform score and an entity of relevance 1.0
C7_Witness ==
    /\ ret.status = "returned"
    /\ args.depth = DeepLabel
    /\ ret.value.predictions.d90 = 100
    /\ DOMAIN ret.value.platform_scores # {}
    /\ \E i \in 1..Len(ret.value.entities) : ret.value.entities[i].relevance = 100

ResultFields ==
    {"url", "domain", "website_type", "ai_visibility_score", "entity_score", "entity_count",
     "schema_score", "schema_types", "sge_score", "ai_confidence", "improvement_potential",
     "platform_scores", "entities", "entity_recommendations", "kg_present", "kg_missing",
     "ai_description", "optimized_description", "featured_snippets",
     "generative_recommendations", "content_structure", "predictions", "action_plan",
     "analysis_timestamp"}

\* C8: generate_ai_analysis has no error condition: for any url, any platform
\* list and any depth among Basic, Advanced and Deep, given by its plain name
\* or by the label of the sidebar, a call returns a complete result record.
C8_NeverRaises ==
    ret # NoReturn => (ret.status = "returned" /\ DOMAIN ret.value = ResultFields)

\* the depth_config entry applied to a depth label
ConfigOf(label) ==
    LET hits == DepthHits(label)
    IN  CHOOSE c \in {depth_config[h] : h \in {h \in hits : \A g \in hits : h <= g}} : TRUE

Metrics == {"entities", "entity_score", "schema_score"}

\* C9: for entity_count, entity_score and schema_score the floor and the
\* ceiling of the sampling interval do not decrease from Basic to Advanced to
\* Deep, the Deep interval is at least as wide as the Basic one, and every
\* result lies in the intervals of its depth.
C9_MonotonicByDepth ==
    \A b \in {ConfigOf(BasicLabel)}, a \in {ConfigOf(AdvancedLabel)}, d \in {ConfigOf(DeepLabel)} :
        /\ \A m \in Metrics :
              /\ b[m][1] <= a[m][1] /\ a[m][1] <= d[m][1]
              /\ b[m][2] <= a[m][2] /\ a[m][2] <= d[m][2]
              /\ d[m][2] - d[m][1] >= b[m][2] - b[m][1]
        /\ ret.status = "returned" =>
              \A c \in {ConfigOf(args.depth)} :
                  /\ ret.value.entity_count \in c.entities[1]..c.entities[2]
                  /\ ret.value.entity_score \in c.entity_score[1]..c.entity_score[2]
                  /\ ret.value.schema_score \in c.schema_score[1]..c.schema_score[2]

\* C9 witness: a Deep result above every Basic ceiling
C9_Witness ==
    /\ ret.status = "returned"
    /\ args.depth = DeepLabel
    /\ ret.value.entity_count > ConfigOf(BasicLabel).entities[2]
    /\ ret.value.entity_score > ConfigOf(BasicLabel).entity_score[2]
    /\ ret.value.schema_score > ConfigOf(BasicLabel).schema_score[2]

\* C10: at depth Advanced the entity_count of every result lies in 20..45.
C10_AdvancedEntityCount ==
    (ret.status = "returned" /\ Contains(args.depth, <<"A","d","v","a","n","c","e","d">>))
        => ret.value.entity_count \in 20..45

\* C10 witness: an Advanced result with the largest entity_count drawn
C10_Witness ==
    /\ ret.status = "returned"
    /\ args.depth = AdvancedLabel
    /\ ret.value.entity_count = ConfigOf(AdvancedLabel).entities[2]

----------------------------------------------------------------------------
(* Claim about purity, checked under SpecPure *)

\* C6: a call of detect_website_type changes nothing but its return value
\* (session state, database, generator and the records handed out earlier
\* stay as they were), and it returns the record every earlier call with the
\* same url and domain returned, whatever happened in between.
C6_PureFunction ==
    [][Len(returned') = Len(returned) + 1 =>
          /\ session_state' = session_state
          /\ db' = db
          /\ rng' = rng
          /\ SubSeq(returned', 1, Len(returned)) = returned
          /\ \A i \in 1..Len(returned) :
                (returned[i].url = returned'[Len(returned')].url
                 /\ returned[i].domain = returned'[Len(returned')].domain)
                    => returned[i].value = returned'[Len(returned')].value]_vars

\* C6 witness: two calls with the same input, an analysis of another site
\* made in between, returned the same record
C6_Witness ==
    /\ Len(returned) = 2
    /\ returned[1].url = returned[2].url
    /\ returned[1].domain = returned[2].domain
    /\ returned[1].analyses_before < returned[2].analyses_before
    /\ session_state.analysis_results # None
    /\ session_state.analysis_results.website_type # returned[2].value
    /\ returned[1].value = returned[2].value
    /\ db.analyses # <<>>

----------------------------------------------------------------------------
(* Further claims about the generator, checked under SpecGenerate *)

\* C11: the platform_scores map of a result has exactly the requested
\* platform names as its keys, known to platform_bonus or not, a name
\* requested twice having one entry, and it is empty when the list of
\* platforms is empty.
C11_OneEntryPerPlatform ==
    ret.status = "returned" =>
        /\ DOMAIN ret.value.platform_scores = SeqToSet(args.platforms)
        /\ args.platforms = <<>> => ret.value.platform_scores = <<>>

\* C11 witness: a result for a known platform and a name that is none of
\* the six
C11_Witness ==
    /\ ret.status = "returned"
    /\ args.platforms = <<"Perplexity", "Gemini">>
    /\ DOMAIN ret.value.platform_scores = {"Perplexity", "Gemini"}

----------------------------------------------------------------------------
(* The generators of canned content called on every category *)

\* the seven records detect_website_type can return
WebsiteTypes == {MatchedWebsiteType(patterns[i]) : i \in 1..Len(patterns)} \cup {DefaultWebsiteType}

\* entity counts generate_ai_analysis passes on: ends of the depth_config
\* intervals and an odd count between them
EntityCounts == {10, 13, 20, 35, 55}

CannedGenerators ==
    {"generate_entity_recommendations", "generate_featured_snippets",
     "generate_generative_recommendations"}

InitCanned ==
    /\ args \in [fn : {"generate_entities"}, count : EntityCounts,
                 depth : DepthLabels \cup DepthNames, website_type : WebsiteTypes]
                \cup [fn : CannedGenerators, website_type : WebsiteTypes]
    /\ ret = NoReturn
    /\ rng \in Streams
    /\ session_state = InitialSession
    /\ db = EmptyDatabase
    /\ returned = <<>>
    /\ now = 0
    /\ http = <<>>

EntitiesCall ==
    /\ args.fn = "generate_entities"
    /\ ret = NoReturn
    /\ \E gen \in {generate_entities(args.count, args.depth, args.website_type, rng, 0)} :
           /\ ret' = Returned(gen.entities)
           /\ rng' = Advance(rng, gen.next)
    /\ UNCHANGED <<args, session_state, db, returned, now, http>>

RecommendationsCall ==
    /\ args.fn = "generate_entity_recommendations"
    /\ ret = NoReturn
    /\ ret' = Returned(generate_entity_recommendations(args.website_type))
    /\ UNCHANGED <<args, rng, session_state, db, returned, now, http>>

SnippetsCall ==
    /\ args.fn = "generate_featured_snippets"
    /\ ret = NoReturn
    /\ ret' = Returned(generate_featured_snippets(args.website_type))
    /\ UNCHANGED <<args, rng, session_state, db, returned, now, http>>

GenerativeCall ==
    /\ args.fn = "generate_generative_recommendations"
    /\ ret = NoReturn
    /\ ret' = Returned(generate_generative_recommendations(args.website_type))
    /\ UNCHANGED <<args, rng, session_state, db, returned, now, http>>

NextCanned == EntitiesCall \/ RecommendationsCall \/ SnippetsCall \/ GenerativeCall

SpecCanned == InitCanned /\ [][NextCanned]_vars

----------------------------------------------------------------------------
(* Claims about the canned content, checked under SpecCanned *)

\* the multiplier, in tenths, the claim gives each depth level
ClaimedMultiplier(depth) ==
    IF Contains(depth, <<"B","a","s","i","c">>) THEN 10
    ELSE IF Contains(depth, <<"A","d","v","a","n","c","e","d">>) THEN 15
    ELSE 20

\* the name table of a category: its own, or the Service Provider one
NameTableOf(type) ==
    IF \E i \in 1..Len(entity_templates) : entity_templates[i].key = type
    THEN entity_templates[CHOOSE i \in 1..Len(entity_templates) : entity_templates[i].key = type].names
    ELSE entity_templates[CHOOSE i \in 1..Len(entity_templates) :
                              entity_templates[i].key = ServiceProvider].names

\* C12: the list generate_entities returns is a prefix of the name table of
\* the category, in table order and without a repeated name, of length
\* min(int(count * m), table length) with m = 1.0, 1.5, 2.0 for Basic,
\* Advanced, Deep.
C12_EntitiesArePrefix ==
    (ret.status = "returned" /\ args.fn = "generate_entities") =>
        \A table \in {NameTableOf(args.website_type.type)} :
            /\ Len(ret.value) = Min((args.count * ClaimedMultiplier(args.depth)) \div 10, Len(table))
            /\ Len(ret.value) <= Len(table)
            /\ \A i \in 1..Len(ret.value) : ret.value[i].text = table[i]
            /\ \A i, j \in 1..Len(ret.value) : ret.value[i].text = ret.value[j].text => i = j

\* C12 witness: an odd count at Advanced, 13 * 1.5 = 19.5 giving 19 entities,
\* one more than a SaaS table holds, so the list is the whole table
C12_Witness ==
    /\ ret.status = "returned"
    /\ args.fn = "generate_entities"
    /\ args.count = 13
    /\ args.depth = AdvancedLabel
    /\ args.website_type.type = SaaSTechnology
    /\ Len(ret.value) = 18

----------------------------------------------------------------------------
(* Analyze clicks with every setting of the options and of the API key *)

NextClicks ==
    \E u \in ClickUrls \cup {<<>>}, s \in BOOLEAN, w \in BOOLEAN, k \in ApiKeys :
        AnalyzeClick(u, AdvancedLabel, <<"Perplexity">>, s, w, k)

SpecClicks == InitPure /\ [][NextClicks]_vars

\* session state without the stored key
WithoutKey(session) == [session EXCEPT !.api_key = None]

----------------------------------------------------------------------------
(* The LLM-backed analysis path.  src/main.py holds no such path; it is     *)
(* modelled from sections 4.3, 5, 6 and 7 of the specification: a key of    *)
(* the wrong shape is detected without a request, otherwise one POST is     *)
(* sent, and anything but a 200 reply carrying a complete JSON object is    *)
(* answered by the mock generator's output.                                 *)

\* keys: none, one of the wrong shape, one of the right shape
LLMKeys == {<<>>, <<"d","e","m","o">>, <<"s","k","-","d","e","m","o">>}

\* the cheap string-shape check of a credential
HasKeyShape(api_key) == startswith(api_key, <<"s","k","-">>) /\ Len(api_key) > 3

\* the analysis a provider answers with: of the shape of a result, its
\* visibility score one the mock generator never draws
LLMJson(url, depth, platforms) ==
    [generate_ai_analysis(url, depth, platforms,
                          [i \in 1..RandPeriod |-> UnitDen]).outcome.value
        EXCEPT !.ai_visibility_score = 100]

\* the fields a partial answer carries
PartialFields == {"ai_visibility_score", "entity_score", "schema_score"}

\* a reply: code 0 stands for an exception of the transport; parsed tells
\* whether the body is JSON; json is the object parsed
Reply(code, parsed, json) == [code |-> code, parsed |-> parsed, json |-> json]

Replies(url, depth, platforms) ==
    LET full == LLMJson(url, depth, platforms)
        part == [f \in PartialFields |-> full[f]]
    IN  { Reply(0, FALSE, <<>>), Reply(401, TRUE, <<>>), Reply(500, FALSE, <<>>),
          Reply(200, FALSE, <<>>), Reply(200, TRUE, part), Reply(200, TRUE, full) }

\* the path as it would be if a partial answer were backfilled with mock
\* values
analyze_with_llm_backfilling(api_key, url, depth, platforms, r, reply) ==
    LET mock == generate_ai_analysis(url, depth, platforms, r)
        request == [method |-> "POST", bearer |-> api_key, prompt |-> url]
    IN  IF ~HasKeyShape(api_key)
        THEN [outcome |-> mock.outcome, draws |-> mock.draws, requests |-> <<>>]
        ELSE IF reply.code = 200 /\ reply.parsed /\ mock.outcome.status = "returned"
        THEN [outcome |-> Returned([f \in DOMAIN mock.outcome.value |->
                                       IF f \in DOMAIN reply.json THEN reply.json[f]
                                       ELSE mock.outcome.value[f]]),
              draws |-> mock.draws, requests |-> <<request>>]
        ELSE [outcome |-> mock.outcome, draws |-> mock.draws, requests |-> <<request>>]

\* the analysis with a key: what the caller is handed, the draws consumed
\* and the requests sent
analyze_with_llm(api_key, url, depth, platforms, r, reply) ==
    LET mock == generate_ai_analysis(url, depth, platforms, r)
        request == [method |-> "POST", bearer |-> api_key, prompt |-> url]
    IN  IF ~HasKeyShape(api_key)
        THEN [outcome |-> mock.outcome, draws |-> mock.draws, requests |-> <<>>]
        ELSE IF reply.code = 200 /\ reply.parsed
                /\ DOMAIN reply.json = DOMAIN LLMJson(url, depth, platforms)
        THEN [outcome |-> Returned(reply.json), draws |-> 0, requests |-> <<request>>]
        ELSE [outcome |-> mock.outcome, draws |-> mock.draws, requests |-> <<request>>]

LLMPlatformLists == {<<>>, <<"Perplexity">>}

InitLLM ==
    /\ args \in UNION { [fn : {"analyze_with_llm"}, api_key : LLMKeys, url : {ExampleUrl},
                         depth : {d}, platforms : {p}, reply : Replies(ExampleUrl, d, p)] :
                        d \in DepthLabels, p \in LLMPlatformLists }
    /\ ret = NoReturn
    /\ rng \in Streams
    /\ session_state = InitialSession
    /\ db = EmptyDatabase
    /\ returned = <<>>
    /\ now = 0
    /\ http = <<>>

LLMCall ==
    /\ args.fn = "analyze_with_llm"
    /\ ret = NoReturn
    /\ \E call \in {analyze_with_llm(args.api_key, args.url, args.depth, args.platforms,
                                     rng, args.reply)} :
           /\ ret' = call.outcome
           /\ rng' = Advance(rng, call.draws)
           /\ http' = http \o call.requests
    /\ UNCHANGED <<args, session_state, db, returned, now>>

NextLLM == LLMCall

SpecLLM == InitLLM /\ [][NextLLM]_vars

\* the failures the claim lists, and an answer that lacks fields
FailedReply(api_key, reply) ==
    \/ ~HasKeyShape(api_key)
    \/ reply.code # 200
    \/ ~reply.parsed
    \/ DOMAIN reply.json = PartialFields

----------------------------------------------------------------------------
(* The Scheduled Analysis tab, the passing of time, and Analyze clicks *)

Frequencies == {"Daily", "Weekly", "Monthly"}

\* timedelta(days=1 if frequency=="Daily" else 7 if frequency=="Weekly" else 30)
DaysOf(frequency) == IF frequency = "Daily" THEN 1 ELSE IF frequency = "Weekly" THEN 7 ELSE 30

\* the entry the Schedule Analysis button appends at time t
ScheduleEntry(schedule_url, frequency, t) ==
    [url |-> schedule_url, frequency |-> frequency, next_run |-> t + DaysOf(frequency),
     active |-> TRUE, last_run |-> None]

\* the list without its idx-th entry (list.pop(idx), idx counted from 1)
Pop(list, idx) == SubSeq(list, 1, idx - 1) \o SubSeq(list, idx + 1, Len(list))

\* most entries kept in the list of scheduled analyses
MaxSchedules == 1

\* last day followed
MaxDay == 8

\* the Schedule Analysis button pressed
ScheduleClick(schedule_url, frequency) ==
    /\ Len(session_state.scheduled_analyses) < MaxSchedules
    /\ args' = [fn |-> "schedule_click", url |-> schedule_url, frequency |-> frequency]
    /\ session_state' =
          IF schedule_url # <<>>
          THEN [session_state EXCEPT !.scheduled_analyses =
                   Append(@, ScheduleEntry(schedule_url, frequency, now))]
          ELSE session_state
    /\ UNCHANGED <<ret, rng, db, returned, now, http>>

\* the delete button of the idx-th entry pressed
DeleteClick(idx) ==
    /\ idx \in 1..Len(session_state.scheduled_analyses)
    /\ args' = [fn |-> "delete_click", idx |-> idx]
    /\ session_state' = [session_state EXCEPT !.scheduled_analyses = Pop(@, idx)]
    /\ UNCHANGED <<ret, rng, db, returned, now, http>>

\* a day passes; nothing of the program runs
Tick ==
    /\ now < MaxDay
    /\ now' = now + 1
    /\ UNCHANGED <<args, ret, rng, session_state, db, returned, http>>

NextSchedule ==
    \/ \E u \in {ExampleUrl, <<>>}, f \in Frequencies : ScheduleClick(u, f)
    \/ \E idx \in 1..MaxSchedules + 1 : DeleteClick(idx)
    \/ Tick
    \/ \E w \in BOOLEAN : AnalyzeClick(ExampleUrl, AdvancedLabel, <<"Perplexity">>, TRUE, w, "")

\* time passes whatever the user does
SpecSchedule == InitPure /\ [][NextSchedule]_vars /\ WF_vars(Tick)

\* an entry is due and nothing shows a run of it: its last_run is unset and
\* no row of the analyses table holds its url
DueAndNotRun ==
    \E i \in 1..Len(session_state.scheduled_analyses) :
        LET entry == session_state.scheduled_analyses[i]
        IN  /\ entry.active
            /\ now >= entry.next_run
            /\ entry.last_run = None
            /\ \A j \in 1..Len(db.analyses) : db.analyses[j].url # entry.url

\* C15: a scheduled analysis that is due is eventually run (its url is
\* analysed and the result saved) unless it is deleted.
C15_ScheduledEventuallyRun == DueAndNotRun ~> ~DueAndNotRun

----------------------------------------------------------------------------
(* Claim about the fallbacks of the canned content, checked under SpecCanned *)

\* whether a table has an entry of its own for a category
HasEntry(table, type) == \E i \in 1..Len(table) : table[i].key = type

\* the entry of a category in a table that has one
EntryOf(table, type) == table[CHOOSE i \in 1..Len(table) : table[i].key = type]

\* C16: for each of the seven categories every generator of canned content
\* returns a non-empty list and raises nothing, and a category with an entry
\* of its own in the table of a generator is given that entry: its names in
\* generate_entities, its recommendations (followed by the universal one) in
\* generate_entity_recommendations, its snippets in generate_featured_snippets.
C16_EveryCategoryHasContent ==
    ret # NoReturn =>
        /\ ret.status = "returned"
        /\ ret.value # <<>>
        /\ (args.fn = "generate_entities" /\ HasEntry(entity_templates, args.website_type.type)) =>
              \A i \in 1..Len(ret.value) :
                  ret.value[i].text = EntryOf(entity_templates, args.website_type.type).names[i]
        /\ (args.fn = "generate_entity_recommendations"
            /\ HasEntry(base_recs, args.website_type.type)) =>
              ret.value = EntryOf(base_recs, args.website_type.type).recs
                          \o <<"Implement FAQ Schema">>
        /\ (args.fn = "generate_featured_snippets"
            /\ HasEntry(snippets_by_type, args.website_type.type)) =>
              ret.value = EntryOf(snippets_by_type, args.website_type.type).snippets

\* C16 witness: a category without snippets of its own was given the
\* fallback list
C16_Witness ==
    /\ ret.status = "returned"
    /\ args.fn = "generate_featured_snippets"
    /\ args.website_type.type = BusinessWebsite
    /\ ~HasEntry(snippets_by_type, BusinessWebsite)
    /\ ret.value = EntryOf(snippets_by_type, ECommerceRetail).snippets

----------------------------------------------------------------------------
(* Further claims about the scores, checked under SpecGenerate *)

\* C17: the entity factor of predict_sge_performance, for the entity_count
\* generate_ai_analysis passes to it, is at most 15 points.
C17_EntityFactorAtMost15 ==
    ret.status = "returned" => entity_factor(ret.value.entity_count) <= 15 * Scale


\* the values of ai_visibility_score and of improvement_potential that the
\* draws of a stream can give
VisibilityValues == {randint(45, 75, u) : u \in 0..UnitDen}

PotentialValues == {randint(35, 55, u) : u \in 0..UnitDen}

\* the stream of smallest draws
ZeroStream == [i \in 1..RandPeriod |-> 0]

----------------------------------------------------------------------------
(* Claim about the Schedule Weekly option, checked under SpecClicks *)

\* C19: an Analyze click with a url and Schedule Weekly checked appends a
\* weekly entry for that url to the scheduled analyses; with the option
\* unchecked the scheduled analyses stay as they are.
C19_ScheduleWeeklyAddsEntry ==
    [][(args'.fn = "analyze_click" /\ args'.url # <<>>) =>
          IF args'.add_to_schedule
          THEN \E entry \in {ScheduleEntry(u, "Weekly", now) :
                                u \in {args'.url, NormalizedUrl(args'.url)}} :
                   session_state'.scheduled_analyses =
                       Append(session_state.scheduled_analyses, entry)
          ELSE session_state'.scheduled_analyses = session_state.scheduled_analyses]_vars

----------------------------------------------------------------------------
(* The Database Stats of the sidebar after saved analyses *)

\* the rows  SELECT * FROM analyses ORDER BY timestamp DESC LIMIT limit
\* returns: the newest first.  Rows are saved by Analyze clicks, which lie
\* seconds apart, so the order of the timestamps is the order of insertion.
get_analysis_history(table, limit) ==
    LET n == Min(limit, Len(table))
    IN  [i \in 1..n |-> table[Len(table) + 1 - i]]

\* limit=10, the default of get_analysis_history
DefaultLimit == 10

\* limit=1000, as the sidebar asks for Total Analyses
StatsLimit == 1000

\* st.metric("Total Analyses", ...)
total_analyses(table) == Len(get_analysis_history(table, StatsLimit))

\* st.metric("Tracked Sites", ...)
TrackedSites(table) ==
    IF total_analyses(table) > 0
    THEN Cardinality({get_analysis_history(table, DefaultLimit)[i].domain :
                         i \in 1..Len(get_analysis_history(table, DefaultLimit))})
    ELSE 0

\* most analyses saved
MaxSaved == 11

\* an Analyze click with Save to Database checked
SavingClick(url_input) ==
    /\ Len(db.analyses) < MaxSaved
    /\ args' = [fn |-> "analyze_click", url |-> url_input, depth |-> BasicLabel,
                platforms |-> <<>>, save_to_db |-> TRUE,
                add_to_schedule |-> FALSE, api_key |-> ""]
    /\ \E run \in {AnalyzeHandler(session_state, db, rng, url_input, BasicLabel,
                                  <<>>, TRUE, FALSE, "")} :
           /\ session_state' = run.session_state
           /\ db' = run.db
           /\ rng' = run.rng
           /\ ret' = run.ret
    /\ UNCHANGED <<returned, now, http>>

NextStats == \E u \in ClickUrls : SavingClick(u)

SpecStats == InitPure /\ [][NextStats]_vars

\* the number of distinct domains among the rows Total Analyses counts
DomainsOfCountedRows(table) ==
    Cardinality({get_analysis_history(table, StatsLimit)[i].domain :
                    i \in 1..total_analyses(table)})

\* C20: after any sequence of saved analyses the Tracked Sites metric is the
\* number of distinct domains among the rows Total Analyses counts.
C20_TrackedSitesCountsAllDomains ==
    TrackedSites(db.analyses) = DomainsOfCountedRows(db.analyses)

----------------------------------------------------------------------------
(* Analyze clicks on whatever is typed into the URL field *)

\* a URL whose host opens a bracket that is never closed
MalformedUrl == <<"h","t","t","p","s",":","/","/","[","e","x","a","m","p","l","e",".","c","o","m">>

\* what the URL field can hold when the button is pressed
TypedUrls == ClickUrls \cup {<<>>, MalformedUrl}

NextTyped ==
    \E u \in TypedUrls, s \in BOOLEAN, k \in ApiKeys :
        AnalyzeClick(u, AdvancedLabel, <<"Perplexity">>, s, FALSE, k)

SpecTyped == InitPure /\ [][NextTyped]_vars

\* the step of a click that made an analysis: the result replaces
\* analysis_results, one history entry is added, and one row is inserted
\* exactly when Save to Database is checked
AnalysisMade ==
    /\ ret'.status = "returned"
    /\ session_state'.analysis_results = ret'.value
    /\ Len(session_state'.analysis_history) = Len(session_state.analysis_history) + 1
    /\ Len(db'.analyses) = Len(db.analyses) + (IF args'.save_to_db THEN 1 ELSE 0)

\* the step of a click that made none: results, history and table are as before
NothingMade ==
    /\ session_state'.analysis_results = session_state.analysis_results
    /\ session_state'.analysis_history = session_state.analysis_history
    /\ db'.analyses = db.analyses

\* C21: every Analyze click with a non-empty URL replaces analysis_results
\* with the new result, appends exactly one entry to analysis_history and
\* inserts exactly one row iff Save to Database is checked; a click with an
\* empty URL changes none of the three.
C21_ClickEffects ==
    [][IF args'.url # <<>> THEN AnalysisMade ELSE NothingMade]_vars

\* the same for the clicks whose URL urlparse accepts
C21_ClickEffectsOfParsedUrls ==
    [][IF args'.url \notin {<<>>, MalformedUrl} THEN AnalysisMade ELSE NothingMade]_vars

\* after any sequence of clicks the history holds one entry for each analysis
\* completed, and the table no more rows than that
C21_HistoryCountsAnalyses ==
    /\ Len(db.analyses) <= Len(session_state.analysis_history)
    /\ (session_state.analysis_results = None) = (session_state.analysis_history = <<>>)

----------------------------------------------------------------------------
(* The competitor tab: Add Competitor, and the comparison shown below it *)

\* the row as it would be with the two urls in each other's column
add_competitor_swapped(table, primary_url, competitor_url) ==
    Append(table,
           [id |-> Len(table) + 1,
            primary_url |-> competitor_url,
            competitor_url |-> primary_url])

\* AnalysisDatabase.add_competitor(primary_url, competitor_url): the row inserted
add_competitor(table, primary_url, competitor_url) ==
    Append(table,
           [id |-> Len(table) + 1,
            primary_url |-> primary_url,
            competitor_url |-> competitor_url])

\* AnalysisDatabase.get_competitors(primary_url)
get_competitors(table, primary_url) ==
    LET hits == SelectSeq(table, LAMBDA row : row.primary_url = primary_url)
    IN  [i \in 1..Len(hits) |-> hits[i].competitor_url]

\* the numbers the comparison draws when the tab is shown: three for each of
\* the first five saved competitors of the current result
CompetitorDisplayDraws(session, database) ==
    IF session.analysis_results = None
    THEN 0
    ELSE LET saved_comps == get_competitors(database.competitors,
                                            session.analysis_results.url)
         IN  3 * (IF Len(saved_comps) < 5 THEN Len(saved_comps) ELSE 5)

\* what the Competitor URL field holds when the button is pressed
CompetitorUrls ==
    { <<>>,
      <<"h","t","t","p","s",":","/","/","c","o","m","p","e","t","i","t","o","r",".","c","o","m">>,
      <<"r","i","v","a","l",".","c","o","m">> }

\* number of competitors added
MaxCompetitors == 2

\* the Add Competitor button
AddCompetitorClick(competitor_url) ==
    /\ Len(session_state.competitor_list) < MaxCompetitors
    /\ args' = [fn |-> "add_competitor_click", competitor_url |-> competitor_url]
    /\ IF competitor_url # <<>> /\ session_state.analysis_results # None
       THEN /\ session_state' =
                   [session_state EXCEPT !.competitor_list = Append(@, competitor_url)]
            /\ db' = [db EXCEPT !.competitors =
                         add_competitor(@, session_state.analysis_results.url,
                                        competitor_url)]
            /\ ret' = [status |-> "success", message |-> "Added"]
       ELSE /\ ret' = [status |-> "error", message |-> "Run an analysis first"]
            /\ UNCHANGED <<session_state, db>>
    /\ rng' = Advance(rng, CompetitorDisplayDraws(session_state', db'))
    /\ UNCHANGED <<returned, now, http>>

\* an Analyze click, with the comparison of the competitor tab shown after it
AnalyzeBeforeCompetitors(url_input, save_to_db) ==
    /\ Len(session_state.analysis_history) < MaxClicks
    /\ args' = [fn |-> "analyze_click", url |-> url_input, depth |-> BasicLabel,
                platforms |-> <<>>, save_to_db |-> save_to_db,
                add_to_schedule |-> FALSE, api_key |-> ""]
    /\ \E run \in {AnalyzeHandler(session_state, db, rng, url_input, BasicLabel,
                                  <<>>, save_to_db, FALSE, "")} :
           /\ session_state' = run.session_state
           /\ db' = run.db
           /\ ret' = run.ret
           /\ rng' = IF run.ret.status = "raised"
                     THEN run.rng
                     ELSE Advance(run.rng,
                                  CompetitorDisplayDraws(run.session_state, run.db))
    /\ UNCHANGED <<returned, now, http>>

NextCompetitors ==
    \/ \E u \in ClickUrls, s \in BOOLEAN : AnalyzeBeforeCompetitors(u, s)
    \/ \E c \in CompetitorUrls : AddCompetitorClick(c)

SpecCompetitors == InitPure /\ [][NextCompetitors]_vars

\* the urls analysed so far in the session
AnalysedUrls ==
    {session_state.analysis_history[i].url :
        i \in 1..Len(session_state.analysis_history)}

\* the step of an Add Competitor click
AddCompetitorStep ==
    IF args'.competitor_url # <<>> /\ session_state.analysis_results # None
    THEN /\ ret'.status = "success"
         /\ session_state'.competitor_list =
                Append(session_state.competitor_list, args'.competitor_url)
         /\ Len(db'.competitors) = Len(db.competitors) + 1
         /\ \A i \in 1..Len(db.competitors) : db'.competitors[i] = db.competitors[i]
         /\ db'.competitors[Len(db'.competitors)].primary_url =
                session_state.analysis_results.url
         /\ db'.competitors[Len(db'.competitors)].competitor_url = args'.competitor_url
    ELSE /\ ret'.status = "error"
         /\ ret'.message = "Run an analysis first"
         /\ session_state'.competitor_list = session_state.competitor_list
         /\ db'.competitors = db.competitors

\* C22: Add Competitor is rejected with 'Run an analysis first' unless a
\* competitor URL is entered and the session holds an analysis result; a
\* rejection changes neither competitor_list nor the competitors table, a
\* success adds exactly one entry to each, the row carrying the url of the
\* current result as primary_url; so every row's primary_url was analysed
\* earlier in the session.
C22_AddCompetitor ==
    /\ [][args'.fn = "add_competitor_click" => AddCompetitorStep]_vars
    /\ [](\A i \in 1..Len(db.competitors) :
              db.competitors[i].primary_url \in AnalysedUrls)

\* C22 witness: a rejection and two competitors added, for different results
C22_Witness ==
    /\ args # None
    /\ args.fn = "add_competitor_click"
    /\ ret.status = "success"
    /\ Len(session_state.competitor_list) = 2
    /\ Len(db.competitors) = 2
    /\ db.competitors[1].primary_url # db.competitors[2].primary_url

----------------------------------------------------------------------------
(* Claims about the action plan *)

\* scores around the two thresholds of the plan
ScoreSamples == {0, 20, 49, 50, 51, 59, 60, 61, 100}

\* the places of a phase in a plan
PlacesOf(plan, phase) == {i \in 1..Len(plan) : plan[i] = phase}

\* a plan as the scores demand it: Advanced Optimization last and only there,
\* Quick Wins once iff schema_score < 50, Foundation Building once iff
\* entity_score < 60, and nothing else, in that order
PlanFollows(plan, schema_score, entity_score) ==
    /\ plan # <<>>
    /\ PlacesOf(plan, "Advanced Optimization") = {Len(plan)}
    /\ Cardinality(PlacesOf(plan, "Quick Wins")) = (IF schema_score < 50 THEN 1 ELSE 0)
    /\ Cardinality(PlacesOf(plan, "Foundation Building")) = (IF entity_score < 60 THEN 1 ELSE 0)
    /\ \A i \in PlacesOf(plan, "Quick Wins"), j \in PlacesOf(plan, "Foundation Building") : i < j
    /\ \A i \in 1..Len(plan) :
           plan[i] \in {"Quick Wins", "Foundation Building", "Advanced Optimization"}

\* C23: generate_action_plan returns a non-empty list ending in Advanced
\* Optimization, with Quick Wins iff schema_score < 50 and Foundation
\* Building iff entity_score < 60, in that order; so every result of
\* generate_ai_analysis at Basic or Advanced has exactly the three phases,
\* and a result with fewer is a Deep one.
C23_ActionPlanPhases ==
    /\ \A s \in ScoreSamples, e \in ScoreSamples :
           PlanFollows(generate_action_plan([schema_score |-> s, entity_score |-> e,
                                             ai_visibility_score |-> 50]), s, e)
    /\ \A c \in {ConfigOf(BasicLabel), ConfigOf(AdvancedLabel)} :
           c.schema_score[2] < 50 /\ c.entity_score[2] < 60
    /\ ret.status = "returned" =>
           /\ PlanFollows(ret.value.action_plan, ret.value.schema_score,
                          ret.value.entity_score)
           /\ args.depth \in {BasicLabel, AdvancedLabel} =>
                  ret.value.action_plan =
                      <<"Quick Wins", "Foundation Building", "Advanced Optimization">>
           /\ Len(ret.value.action_plan) < 3 => args.depth = DeepLabel

\* C23 witness: a Deep result whose plan is Advanced Optimization alone
C23_Witness ==
    /\ ret.status = "returned"
    /\ args.depth = DeepLabel
    /\ ret.value.schema_score >= 50
    /\ ret.value.entity_score >= 60
    /\ ret.value.action_plan = <<"Advanced Optimization">>

\* a result of Advanced with all three phases
C23_WitnessAdvanced ==
    /\ ret.status = "returned"
    /\ args.depth = AdvancedLabel
    /\ Len(ret.value.action_plan) = 3

----------------------------------------------------------------------------
(* Claims about the predictions *)

\* C24: in every result of generate_ai_analysis the predictions are ordered,
\* ai_visibility_score <= 30_days <= 60_days <= 90_days <= 100, for every
\* depth and every trend factor drawn.
C24_PredictionsOrdered ==
    ret.status = "returned" =>
        /\ ret.value.ai_visibility_score <= ret.value.predictions.d30
        /\ ret.value.predictions.d30 <= ret.value.predictions.d60
        /\ ret.value.predictions.d60 <= ret.value.predictions.d90
        /\ ret.value.predictions.d90 <= 100

\* C24 witness: the least of every draw at Basic, where the trend factor is
\* -5 and the 30-day value equals the present score, below the later ones
C24_Witness ==
    /\ ret.status = "returned"
    /\ args.depth = BasicLabel
    /\ ret.value.entity_count = 10
    /\ ret.value.schema_score = 20
    /\ ret.value.predictions.d30 = ret.value.ai_visibility_score
    /\ ret.value.predictions.d30 < ret.value.predictions.d60
    /\ ret.value.predictions.d60 < ret.value.predictions.d90

----------------------------------------------------------------------------
(* generate_entity_recommendations called again and again *)

\* the key of base_recs a category selects: its own, or Service Provider
SelectedKey(type) == IF HasEntry(base_recs, type) THEN type ELSE ServiceProvider

\* the calls among the earlier ones that selected the list of a key
CallsSelecting(earlier, key) ==
    {i \in 1..Len(earlier) : SelectedKey(earlier[i].website_type.type) = key}

\* the table as it would be if it outlived the calls: every list is the one
\* the last call that selected it returned, the appended item included
BaseRecsKeptAcrossCalls(earlier) ==
    [e \in 1..Len(base_recs) |->
        IF CallsSelecting(earlier, base_recs[e].key) = {}
        THEN base_recs[e]
        ELSE [key |-> base_recs[e].key,
              recs |-> earlier[CHOOSE i \in CallsSelecting(earlier, base_recs[e].key) :
                                   \A j \in CallsSelecting(earlier, base_recs[e].key) : j <= i].value]]

\* base_recs at the start of a call: the dict literal is evaluated anew,
\* whatever the earlier calls appended to the lists they returned
BaseRecsOfCall(earlier) == base_recs

\* generate_entity_recommendations(website_type) after the earlier calls
RecommendationsAfter(earlier, website_type) ==
    Append(Lookup(BaseRecsOfCall(earlier), website_type.type,
                  Lookup(BaseRecsOfCall(earlier), ServiceProvider, None)).recs,
           "Implement FAQ Schema")

\* number of calls followed
MaxRepeats == 3

\* a call of generate_entity_recommendations; the list handed back is kept
RepeatedRecommendations(website_type) ==
    /\ Len(returned) < MaxRepeats
    /\ args' = [fn |-> "generate_entity_recommendations", website_type |-> website_type]
    /\ \E value \in {RecommendationsAfter(returned, website_type)} :
           /\ ret' = Returned(value)
           /\ returned' = Append(returned, [website_type |-> website_type, value |-> value])
    /\ UNCHANGED <<rng, session_state, db, now, http>>

NextRepeated == \E t \in WebsiteTypes : RepeatedRecommendations(t)

SpecRepeated == InitPure /\ [][NextRepeated]_vars

\* the first call made for the category of call i
FirstCallFor(i) ==
    CHOOSE j \in 1..i :
        /\ returned[j].website_type.type = returned[i].website_type.type
        /\ \A k \in 1..(j - 1) :
               returned[k].website_type.type # returned[i].website_type.type

\* C25: after any sequence of earlier calls for any categories a call of
\* generate_entity_recommendations returns the list the first call for its
\* category returned, with 'Implement FAQ Schema' exactly once, as the last
\* item: 4 items for E-commerce / Retail and 3 for every other category.
C25_NoAccumulation ==
    \A i \in 1..Len(returned) :
        \A value \in {returned[i].value} :
            /\ value = returned[FirstCallFor(i)].value
            /\ value = generate_entity_recommendations(returned[i].website_type)
            /\ {k \in 1..Len(value) : value[k] = "Implement FAQ Schema"} = {Len(value)}
            /\ Len(value) = IF returned[i].website_type.type = ECommerceRetail THEN 4 ELSE 3

\* C25 witness: three calls that select the Service Provider list, the first
\* for a category without a list of its own
C25_Witness ==
    /\ Len(returned) = 3
    /\ returned[1].website_type.type = Healthcare
    /\ returned[2].website_type.type = ServiceProvider
    /\ returned[3].website_type.type = ServiceProvider
    /\ Len(returned[3].value) = 3

====
